---- MODULE Spec2Model ----
(***************************************************************************)
(* Model of the SARIMA forecasting engine of AdMob-Revenue-Forecaster      *)
(* (src/src/forecasting.py): SARIMAForecaster.prepare_data, fit_model,     *)
(* forecast and backtest, with the statsmodels estimator as environment.   *)
(*                                                                         *)
(* Dates are day numbers.  Revenue values are integers in units of 1e-8,   *)
(* so the constant 1e-6 that prepare_data adds is 100 units.  NaN is a     *)
(* marker outside the revenue range.                                       *)
(***************************************************************************)
EXTENDS Integers, Sequences, FiniteSets, TLC

\* ------------------------------------------------------------------ bounds
MaxSteps == 2
MaxMonths == 3
MaxDate == 2
MaxExtra == 1
MaxP == 2
MaxD == 1
MaxQ == 2
MaxDay == 3
MaxRows == 2
MaxEvents == 2

\* ------------------------------------------------------- program constants
PrepEps == 100
MinTrain == 30
DaysPerMonth == 30
SmallSort == 16
MapeEps == 1
RatioScale == 1000
SqrtMax == 40000
ChecksumMod == 97

\* ------------------------------------------------------------ value domain
\* NaN is an integer no revenue and no forecast takes (both are above -1000).
NaN == -1000
None == [none |-> TRUE]
IsNaN(x) == x = NaN
Max(a, b) == IF a >= b THEN a ELSE b
Abs(a) == IF a >= 0 THEN a ELSE 0 - a

\* The sum of xs[lo..hi], computed by halving the range.
RECURSIVE SumRange(_, _, _)
SumRange(xs, lo, hi) ==
    IF lo > hi THEN 0
    ELSE IF lo = hi THEN xs[lo]
    ELSE SumRange(xs, lo, (lo + hi) \div 2) + SumRange(xs, (lo + hi) \div 2 + 1, hi)

SumSeq(xs) == SumRange(xs, 1, Len(xs))

\* A DataFrame: the kind of its index, its columns, and its rows in order.
\* A row carries its date (index label or "date" column) and its revenue.
Row(d, v) == [date |-> d, revenue |-> v]
Frame(ix, cs, rs) == [index |-> ix, cols |-> cs, rows |-> rs]
EmptyFrame == Frame("range", {}, <<>>)
Dates(rs) == [i \in 1..Len(rs) |-> rs[i].date]

\* ------------------------------------------------------------ prepare_data
\* pandas sort_index: an index that is already monotonic is left as it is;
\* otherwise argsort with kind="quicksort", which is insertion sort (stable)
\* up to SmallSort elements and not stable above it.
IsMonotonic(rs) == \A i \in 1..(Len(rs) - 1) : rs[i].date <= rs[i + 1].date

RECURSIVE Insert(_, _)
Insert(sorted, r) ==
    IF sorted = <<>> THEN <<r>>
    ELSE IF sorted[Len(sorted)].date <= r.date THEN Append(sorted, r)
    ELSE Append(Insert(SubSeq(sorted, 1, Len(sorted) - 1), r), sorted[Len(sorted)])

RECURSIVE StableSort(_)
StableSort(rs) ==
    IF rs = <<>> THEN <<>>
    ELSE Insert(StableSort(SubSeq(rs, 1, Len(rs) - 1)), rs[Len(rs)])

Reverse(rs) == [i \in 1..Len(rs) |-> rs[Len(rs) + 1 - i]]

sort_index(rs, tie) ==
    IF IsMonotonic(rs) THEN rs
    ELSE IF Len(rs) <= SmallSort \/ tie = "stable" THEN StableSort(rs)
    ELSE StableSort(Reverse(rs))

\* seq[keep]: the elements of seq at the positions in keep, in order
\* (boolean-mask indexing), computed by halving the range lo..hi.
RECURSIVE SelectRange(_, _, _, _)
SelectRange(seq, keep, lo, hi) ==
    IF lo > hi THEN <<>>
    ELSE IF lo = hi THEN (IF lo \in keep THEN <<seq[lo]>> ELSE <<>>)
    ELSE SelectRange(seq, keep, lo, (lo + hi) \div 2)
             \o SelectRange(seq, keep, (lo + hi) \div 2 + 1, hi)

Compress(seq, keep) == SelectRange(seq, keep, 1, Len(seq))

\* data[~data.index.duplicated(keep="first")]
KeepFirst(rs) ==
    Compress(rs, {i \in 1..Len(rs) : \A j \in 1..(i - 1) : rs[j].date # rs[i].date})

fillna(v) == IF IsNaN(v) THEN 0 ELSE v
\* Mutant: negative values are left as they are.
clip_nothing(v) == v

clip(v) == IF IsNaN(v) THEN NaN ELSE Max(v, 0)
AddEps(v) == IF IsNaN(v) THEN NaN ELSE v + PrepEps

PrepValue(v) == AddEps(clip(fillna(v)))

\* The outcome of a call that may raise: exc = "none" and a value, or the
\* exception that left the call.
Ok(v) == [exc |-> "none", val |-> v]
Raise(e) == [exc |-> e, val |-> None]

prepare_data(data, tie) ==
    IF data.index # "datetime" /\ "date" \notin data.cols
    THEN Raise("KeyError")
    ELSE LET cs == data.cols \ {"date"}
             sorted == sort_index(data.rows, tie)
             dedup == KeepFirst(sorted)
         IN IF "revenue" \notin cs
            THEN Raise("ValueError:no revenue column")
            ELSE Ok(Frame("datetime", cs,
                          [i \in 1..Len(dedup) |->
                              Row(dedup[i].date, PrepValue(dedup[i].revenue))]))

\* The statements of prepare_data that write to the frame the caller handed
\* in.  Line 41: data.set_index("date", inplace=True) makes the date column
\* the index of that very object.
set_index(data) == Frame("datetime", data.cols \ {"date"}, data.rows)

\* Mutant: the later statements write to the caller's frame as well.
rebind_inplace(data, prepared) == prepared

\* Lines 44-60: data = data.sort_index() and data = data[...] rebind the
\* local name to new frames, which the assignments of lines 54-60 then write
\* to; the frame the caller handed in stays as line 41 left it.
rebind(data, prepared) == data

\* ------------------------------------------------- configuration and orders
\* An order as Python sees it: the container type and the elements.
List(vs) == [kind |-> "list", vals |-> vs]
Tuple(vs) == [kind |-> "tuple", vals |-> vs]

DefaultOrder == List(<<1, 1, 1>>)
DefaultSeasonal == List(<<1, 1, 1, 7>>)

validate_sarima_parameters(order, seasonal_order) ==
    /\ order # None /\ seasonal_order # None
    /\ order.kind = "list" /\ Len(order.vals) = 3
    /\ seasonal_order.kind = "list" /\ Len(seasonal_order.vals) = 4
    /\ \A i \in 1..3 : order.vals[i] >= 0
    /\ \A i \in 1..4 : seasonal_order.vals[i] >= 0

\* --------------------------------------------------- statsmodels estimator
\* What the library does on one call is an input of the model: whether the
\* SARIMAX constructor and the optimiser raise, the shape of the predicted
\* mean and the AIC table seen by the grid search.
Shapes == {"last", "neg", "nan"}
AicTables == {"fail", "ar2", "flat", "sparse"}
LibOutcomes ==
    {l \in [ctor : BOOLEAN, fit : BOOLEAN, shape : Shapes, aic : AicTables] :
        /\ ~l.ctor => (l.fit /\ l.aic = "ar2")
        /\ ~(l.ctor /\ l.fit) => l.shape = "last"}

\* SARIMAX(...) rejects a seasonal period of 1, seasonal terms without a
\* period, and an empty sample; otherwise the library decides.
SARIMAX_raises(rs, order, seasonal_order, lib) ==
    \/ seasonal_order.vals[4] = 1
    \/ /\ seasonal_order.vals[4] = 0
       /\ seasonal_order.vals[1] + seasonal_order.vals[2] + seasonal_order.vals[3] > 0
    \/ rs = <<>>
    \/ ~lib.ctor

\* Candidate (p, d, q) fits of the grid search and their AIC.
CandidateFits(lib, p, d, q) ==
    CASE lib.aic = "fail" -> FALSE
      [] lib.aic = "sparse" -> (p + d + q) % 2 = 1
      [] OTHER -> TRUE
CandidateAic(lib, p, d, q) ==
    CASE lib.aic = "flat" -> 0 - 5
      [] lib.aic = "sparse" -> 20 - d
      [] OTHER -> 10 + Abs(p - 2) + 3 * d + 2 * q

\* Mutant: a candidate as good as the running best replaces it.
Better_orequal(aic, best_aic) == best_aic = None \/ aic <= best_aic.v

\* if fitted.aic < best_aic, where best_aic starts as np.inf (None here)
Better(aic, best_aic) == best_aic = None \/ aic < best_aic.v

\* The information criteria of a fit of the full model: the library computes
\* them from the sample and the orders alone, with no random input.
Checksum(endog) == SumSeq([i \in 1..Len(endog) |-> endog[i].revenue]) % ChecksumMod
NParams(model) ==
    model.order.vals[1] + model.order.vals[3]
    + model.seasonal_order.vals[1] + model.seasonal_order.vals[3] + 1
EstimatedAic(lib, model) ==
    CandidateAic(lib, model.order.vals[1], model.order.vals[2], model.order.vals[3])
    + 2 * NParams(model) + Checksum(model.endog)
EstimatedBic(lib, model) ==
    EstimatedAic(lib, model) + NParams(model) * Len(model.endog)

\* The three nested loops, threading the running best through the candidates
\* in the order p (outermost), d, q (innermost).  A candidate replaces the
\* running best only if it fitted and its AIC is strictly smaller.
RECURSIVE loop_q(_, _, _, _, _, _)
loop_q(best, lib, p, d, q, max_q) ==
    IF q > max_q THEN best
    ELSE IF CandidateFits(lib, p, d, q)
            /\ Better(CandidateAic(lib, p, d, q), best.best_aic)
    THEN loop_q([best_aic |-> [v |-> CandidateAic(lib, p, d, q)],
                 best_order |-> <<p, d, q>>], lib, p, d, q + 1, max_q)
    ELSE loop_q(best, lib, p, d, q + 1, max_q)

RECURSIVE loop_d(_, _, _, _, _, _)
loop_d(best, lib, p, d, max_d, max_q) ==
    IF d > max_d THEN best
    ELSE loop_d(loop_q(best, lib, p, d, 0, max_q), lib, p, d + 1, max_d, max_q)

RECURSIVE loop_p(_, _, _, _, _, _)
loop_p(best, lib, p, max_p, max_d, max_q) ==
    IF p > max_p THEN best
    ELSE loop_p(loop_d(best, lib, p, 0, max_d, max_q), lib, p + 1, max_p, max_d, max_q)

\* best_aic = np.inf, best_order = (1, 1, 1), then the loops
auto_arima_order(lib, max_p, max_d, max_q) ==
    Tuple(loop_p([best_aic |-> None, best_order |-> <<1, 1, 1>>],
                 lib, 0, max_p, max_d, max_q).best_order)

\* self.auto_arima_order(revenue_series) with its default bounds 3, 2, 3,
\* for each behaviour of the estimator
auto_selection == [lib \in LibOutcomes |-> auto_arima_order(lib, 3, 2, 3)]

\* ------------------------------------------------------- SARIMAForecaster
NewForecaster ==
    [model |-> None, fitted_model |-> None,
     original_data |-> None, forecast_results |-> None]

\* A handler's result: the instance afterwards, the value returned, the
\* exception that reached the caller ("none" if the call returned) and the
\* exception the handler caught and logged ("none" if there was none).
Result(self, val, raised, cause) ==
    [self |-> self, val |-> val, raised |-> raised, cause |-> cause]

\* except Exception: log and return False
fit_model_except(self, e) == Result(self, FALSE, "none", e)

\* The result of fit_model carries, for the properties, what it handed to
\* SARIMAX(...): None when it did not get there, else the orders and whether
\* they come from the auto-selection.
Handed(auto, order, seasonal_order) ==
    [handed |-> [auto |-> auto, order |-> order, seasonal_order |-> seasonal_order]]
NotHanded == [handed |-> None]

fit_model(self, data, order, seasonal_order, config, lib, tie) ==
    LET prep == prepare_data(data, tie)
    IN IF prep.exc # "none" THEN fit_model_except(self, prep.exc) @@ NotHanded
       ELSE
       LET revenue_series == prep.val.rows
           self1 == [self EXCEPT !.original_data = prep.val]
           order1 == IF order = None THEN config.sarima_order ELSE order
           seasonal1 == IF seasonal_order = None THEN config.seasonal_order
                        ELSE seasonal_order
           valid == validate_sarima_parameters(order1, seasonal1)
           order2 == IF valid THEN order1 ELSE auto_selection[lib]
           seasonal2 == IF valid THEN seasonal1 ELSE Tuple(<<1, 1, 1, 7>>)
           model == [endog |-> revenue_series, order |-> order2,
                     seasonal_order |-> seasonal2]
           self2 == [self1 EXCEPT !.model = model]
           fitted == [model |-> model, shape |-> lib.shape,
                      aic |-> EstimatedAic(lib, model),
                      bic |-> EstimatedBic(lib, model)]
       IN (IF SARIMAX_raises(revenue_series, order2, seasonal2, lib)
           THEN fit_model_except(self1, "ValueError:SARIMAX")
           ELSE IF ~lib.fit
           THEN fit_model_except(self2, "LinAlgError:fit")
           ELSE Result([self2 EXCEPT !.fitted_model = fitted], TRUE, "none", "none"))
          @@ Handed(~valid, order2, seasonal2)

\* get_forecast(steps).predicted_mean, step k = 1..steps
Predict(fitted, k) ==
    CASE fitted.shape = "last" -> fitted.model.endog[Len(fitted.model.endog)].revenue
      [] fitted.shape = "neg" -> 0 - k
      [] OTHER -> NaN

FRow(d, v) == [date |-> d, forecast |-> v]
ForecastCols == {"forecast", "lower_ci", "upper_ci"}

\* Mutant: the except clause lets the exception through.
forecast_reraise(self, e) == Result(self, None, "ValueError", e)

\* except Exception: log and return pd.DataFrame()
forecast_except(self, e) == Result(self, EmptyFrame, "none", e)

\* last_date = self.original_data.index[-1]
last_date(self) == self.original_data.rows[Len(self.original_data.rows)].date

\* pd.date_range(start=last_date + timedelta(days=1), periods=steps, freq="D")
date_range(start, periods) == [i \in 1..periods |-> start + i - 1]

forecast(self, steps) ==
    IF self.fitted_model = None
    THEN forecast_except(self, "ValueError:not fitted")
    ELSE IF self.original_data.rows = <<>>
    THEN forecast_except(self, "IndexError")
    ELSE LET forecast_dates == date_range(last_date(self) + 1, steps)
             forecast_df == Frame("datetime", ForecastCols,
                                  [i \in 1..steps |->
                                      FRow(forecast_dates[i],
                                           Predict(self.fitted_model, i))])
         IN Result([self EXCEPT !.forecast_results = forecast_df],
                   forecast_df, "none", "none")

\* ---------------------------------------------------------------- backtest
EmptyDict == [keys |-> {}]

\* Python slices rs[:-k] and rs[-k:] for k >= 0 (note that -0 is 0)
iloc_head(rs, k) ==
    IF k = 0 THEN <<>> ELSE SubSeq(rs, 1, Max(Len(rs) - k, 0))
iloc_tail(rs, k) ==
    IF k = 0 THEN rs ELSE SubSeq(rs, Max(Len(rs) - k, 0) + 1, Len(rs))

\* Mutant: the minimum is compared off by one.
InsufficientTraining_offbyone(train) == Len(train) < MinTrain - 1

\* if len(train_data) < 30: raise ValueError
InsufficientTraining(train) == Len(train) < MinTrain

\* forecast_df.reindex(test_data.index): the forecast of each holdout date,
\* NaN where the forecast has no row for that date
reindex(frows, index) ==
    [i \in 1..Len(index) |->
        IF \E j \in 1..Len(frows) : frows[j].date = index[i]
        THEN FRow(index[i],
                  frows[CHOOSE j \in 1..Len(frows) : frows[j].date = index[i]].forecast)
        ELSE FRow(index[i], NaN)]

\* Mutant: only the actual values are tested for NaN.
valid_indices_actual_only(actual, fcst) ==
    {i \in 1..Len(actual) : ~IsNaN(actual[i].revenue)}

\* ~(np.isnan(actual_values) | np.isnan(forecast_values))
valid_indices(actual, fcst) ==
    {i \in 1..Len(actual) : ~(IsNaN(actual[i].revenue) \/ IsNaN(fcst[i].forecast))}

\* np.sqrt on a non-negative number, rounded down to an integer
RECURSIVE SqrtRange(_, _, _)
SqrtRange(x, lo, hi) ==
    IF lo >= hi THEN lo
    ELSE LET mid == (lo + hi + 1) \div 2
         IN IF mid * mid <= x THEN SqrtRange(x, mid, hi)
            ELSE SqrtRange(x, lo, mid - 1)

sqrt(x) == SqrtRange(x, 0, SqrtMax)

\* Python's a / b on numbers, in units of 1 / RatioScale, rounded toward
\* minus infinity (b # 0)
Ratio(a, b) ==
    IF b > 0 THEN (a * RatioScale) \div b ELSE ((0 - a) * RatioScale) \div (0 - b)

\* Mutant: the relative error is taken without its absolute value.
AbsPctError_signed(a, f) == Ratio(a - f, a + MapeEps)

\* np.abs((actual_values - forecast_values) / (actual_values + 1e-8))
AbsPctError(a, f) == Abs(Ratio(a - f, a + MapeEps))

\* The metrics: the means as exact fractions of integers (values in units of
\* 1e-8, relative errors in units of 1 / RatioScale).
Frac(n, d) == [num |-> n, den |-> d]
Metrics(actual_values, forecast_values) ==
    LET n == Len(actual_values)
        err == [i \in 1..n |-> actual_values[i] - forecast_values[i]]
        mse == Frac(SumSeq([i \in 1..n |-> err[i] * err[i]]), n)
    IN [n |-> n,
        mae |-> Frac(SumSeq([i \in 1..n |-> Abs(err[i])]), n),
        mse |-> mse,
        rmse |-> IF mse.num < 0 THEN NaN ELSE sqrt(mse.num \div mse.den),
        mape |-> Frac(SumSeq([i \in 1..n |->
                          AbsPctError(actual_values[i], forecast_values[i])])
                      * 100, n)]

\* What backtest did, for the properties: how far it got, the split, the
\* calls on the temporary forecaster (with the sample handed to SARIMAX), and
\* the pairs the metrics were taken of.
NoTrace ==
    [stage |-> "prepare", prepared |-> <<>>, train |-> <<>>, test |-> <<>>,
     fits |-> 0, estimated |-> <<>>, steps |-> 0, fcast |-> <<>>,
     aligned |-> <<>>, pairs |-> <<>>, shared |-> FALSE, temp |-> None]

BtResult(val, raised, cause, trace) ==
    [val |-> val, raised |-> raised, cause |-> cause, trace |-> trace]

\* Mutant: the except clause lets the exception through.
backtest_reraise(e, trace) == BtResult(None, "ValueError", e, trace)

\* except Exception: log and return {}
backtest_except(e, trace) == BtResult(EmptyDict, "none", e, trace)

\* The steps of backtest after the split, one operator per step; each takes
\* the values computed so far.

\* Lines 262-297: the valid pairs, the metrics, the results dict
backtest_metrics(train, test, aligned, t3) ==
    LET valid == valid_indices(test, aligned)
        actual_values ==
            Compress([i \in 1..Len(test) |-> test[i].revenue], valid)
        forecast_values ==
            Compress([i \in 1..Len(test) |-> aligned[i].forecast], valid)
        t4 == [t3 EXCEPT !.stage = "metrics", !.aligned = aligned,
                  !.pairs = [i \in 1..Len(actual_values) |->
                      [actual |-> actual_values[i],
                       forecast |-> forecast_values[i]]]]
    IN IF Len(actual_values) = 0
       THEN backtest_except("ValueError:no valid data points", t4)
       ELSE BtResult(
           [keys |-> {"train_data", "test_data", "forecast_data",
                      "metrics", "test_period"},
            train_data |-> train, test_data |-> test,
            forecast_data |-> aligned,
            metrics |-> Metrics(actual_values, forecast_values),
            test_period |-> <<test[1].date, test[Len(test)].date>>],
           "none", "none", [t4 EXCEPT !.stage = "done"])

\* Lines 252-259: forecast the test period and align it to the test index
backtest_forecast(temp_forecaster, train, test, t2) ==
    LET fcr == forecast(temp_forecaster, Len(test))
        t3 == [t2 EXCEPT !.stage = "forecast", !.steps = Len(test),
                         !.fcast = fcr.val.rows, !.temp = fcr.self]
    IN IF fcr.val.rows = <<>>
       THEN backtest_except("ValueError:failed to forecast", t3)
       ELSE backtest_metrics(train, test, reindex(fcr.val.rows, Dates(test)), t3)

\* Mutant: the backtest fits the calling forecaster itself.
temp_forecaster_self(self) == [shared |-> TRUE, state |-> self]

\* Line 248: temp_forecaster = SARIMAForecaster(self.config), a new object
\* that shares nothing with self but the configuration.
temp_forecaster(self) == [shared |-> FALSE, state |-> NewForecaster]

\* Lines 249-250: the outcome of the temporary forecaster's fit
backtest_fitted(shared, fit, train, test, t1) ==
    IF ~fit.val
    THEN backtest_except("ValueError:failed to fit",
             [t1 EXCEPT !.stage = "fit", !.fits = 1, !.shared = shared,
                        !.temp = fit.self, !.estimated = <<>>])
    ELSE backtest_forecast(fit.self, train, test,
             [t1 EXCEPT !.stage = "fit", !.fits = 1, !.shared = shared,
                        !.temp = fit.self,
                        !.estimated = fit.self.model.endog])

\* Lines 243-250: fit a temporary forecaster on the training data
backtest_fit(self, cols, train, test, config, lib, tie, t1) ==
    backtest_fitted(temp_forecaster(self).shared,
                    fit_model(temp_forecaster(self).state,
                              Frame("datetime", cols, train),
                              None, None, config, lib, tie),
                    train, test, t1)

backtest_try(self, data, test_months, config, lib, tie) ==
    LET prep == prepare_data(data, tie)
    IN IF prep.exc # "none" THEN backtest_except(prep.exc, NoTrace)
       ELSE
       LET prepared == prep.val.rows
           test_days == test_months * DaysPerMonth
           train == iloc_head(prepared, test_days)
           test == iloc_tail(prepared, test_days)
           t1 == [NoTrace EXCEPT !.stage = "split", !.prepared = prepared,
                                 !.train = train, !.test = test]
       IN IF InsufficientTraining(train)
          THEN backtest_except("ValueError:insufficient training data", t1)
          ELSE backtest_fit(self, prep.val.cols, train, test, config, lib,
                            tie, t1)

\* The whole call: its result and the calling forecaster afterwards. The only
\* forecaster the body assigns to is temp_forecaster.
backtest_self(self, r) ==
    r @@ [self |-> IF r.trace.shared THEN r.trace.temp ELSE self]

backtest(self, data, test_months, config, lib, tie) ==
    backtest_self(self, backtest_try(self, data, test_months, config, lib, tie))

\* --------------------------------------------------- get_model_diagnostics
DiagnosticKeys ==
    {"aic", "bic", "log_likelihood", "residual_mean", "residual_std",
     "ljung_box_p_value", "model_order", "seasonal_order"}

\* Mutant: the diagnostics discard the fitted model they have read.
get_model_diagnostics_consuming(self, lb_ok) ==
    Result([self EXCEPT !.fitted_model = None], EmptyDict, "none", "none")

\* Reads of the fitted model only; acorr_ljungbox may raise (lb_ok false),
\* which the except clause turns into {}.
get_model_diagnostics(self, lb_ok) ==
    IF self.fitted_model = None THEN Result(self, EmptyDict, "none", "none")
    ELSE IF ~lb_ok
    THEN Result(self, EmptyDict, "none", "ValueError:acorr_ljungbox")
    ELSE Result(self,
                [keys |-> DiagnosticKeys,
                 model_order |-> self.fitted_model.model.order,
                 seasonal_order |-> self.fitted_model.model.seasonal_order],
                "none", "none")

\* ---------------------------------------------------------- AdMobAPIClient
\* df.sort_values("date"): quicksort, as sort_index without the short cut
sort_values(rs, tie) ==
    IF Len(rs) <= SmallSort \/ tie = "stable" THEN StableSort(rs)
    ELSE StableSort(Reverse(rs))

\* generate_report: the rows of the API response as a frame indexed by date;
\* an empty frame when the request fails or the report has no rows
generate_report(response, tie) ==
    IF ~response.ok \/ response.rows = <<>> THEN EmptyFrame
    ELSE Frame("datetime", {"revenue"}, sort_values(response.rows, tie))

HasDuplicates(rs) == \E i, j \in 1..Len(rs) : i < j /\ rs[i].date = rs[j].date

\* df.reindex(pd.date_range(start, end, freq="D"), fill_value=0); reindex
\* raises on an index with duplicate labels, and the except clause returns
\* df as it came
fill_missing_dates(df, start_date, end_date) ==
    IF HasDuplicates(df.rows) THEN df
    ELSE Frame("datetime", df.cols,
               [i \in 1..Max(end_date - start_date + 1, 0) |->
                   LET d == start_date + i - 1
                   IN IF \E j \in 1..Len(df.rows) : df.rows[j].date = d
                      THEN df.rows[CHOOSE j \in 1..Len(df.rows) : df.rows[j].date = d]
                      ELSE Row(d, 0)])

get_revenue_data(response, start_date, end_date, tie) ==
    LET df == generate_report(response, tie)
    IN IF df.rows = <<>> THEN EmptyFrame
       ELSE fill_missing_dates(df, start_date, end_date)

\* The cache files, one per date range: the records written, or None.  For
\* the properties an entry also remembers the report it was made from.
EmptyCache(keys) == [k \in keys |-> None]

\* df.reset_index().to_dict("records"), the dates as ISO text, as JSON
cache_data(cache, df, start_date, end_date, report) ==
    [cache EXCEPT ![<<start_date, end_date>>] =
        [records |-> [i \in 1..Len(df.rows) |->
                         [date |-> df.rows[i].date, revenue |-> df.rows[i].revenue]],
         report |-> report]]

\* The cached frame if the file exists, is young enough and holds records
get_cached_data(cache, start_date, end_date, fresh) ==
    LET entry == cache[<<start_date, end_date>>]
    IN IF entry # None /\ fresh /\ entry.records # <<>>
       THEN Frame("datetime", {"revenue"},
                  [i \in 1..Len(entry.records) |->
                      Row(entry.records[i].date, entry.records[i].revenue)])
       ELSE None

fetch_revenue_data(cache, response, start_date, end_date, use_cache, fresh, tie) ==
    LET cached_data == IF use_cache
                       THEN get_cached_data(cache, start_date, end_date, fresh)
                       ELSE None
        df == get_revenue_data(response, start_date, end_date, tie)
    IN IF cached_data # None
       THEN [val |-> cached_data, cache |-> cache, from_cache |-> TRUE,
             report |-> cache[<<start_date, end_date>>].report]
       ELSE [val |-> df, from_cache |-> FALSE, report |-> response.rows,
             cache |-> IF df.rows # <<>>
                       THEN cache_data(cache, df, start_date, end_date, response.rows)
                       ELSE cache]

\* ------------------------------------------------------------ DataProcessor
QuantilePct == 95
OutlierFactor == 10

\* The k-th smallest of the values vs (an order statistic)
OrderStat(vs, k) ==
    CHOOSE v \in {vs[i] : i \in 1..Len(vs)} :
        /\ Cardinality({i \in 1..Len(vs) : vs[i] < v}) < k
        /\ k <= Cardinality({i \in 1..Len(vs) : vs[i] <= v})

\* 100 * revenue.quantile(0.95) * 10: the quantile interpolates linearly
\* between the order statistics around position (n - 1) * 0.95.
ThresholdX100(vs) ==
    LET pos == (Len(vs) - 1) * QuantilePct
        lo == pos \div 100 + 1
        hi == IF lo < Len(vs) THEN lo + 1 ELSE lo
        at_lo == OrderStat(vs, lo)
    IN OutlierFactor * (100 * at_lo + (pos % 100) * (OrderStat(vs, hi) - at_lo))

\* cleaned_data.loc[outliers, "revenue"] = outlier_threshold, where outliers
\* are the values above the threshold
cap(v, t100) == IF 100 * v > t100 THEN t100 \div 100 ELSE v

DerivedCols ==
    {"day_of_week", "is_weekend", "month", "day_of_month", "revenue_ma_7",
     "revenue_ma_30", "revenue_std_7", "revenue_std_30", "revenue_lag_1",
     "revenue_lag_7", "revenue_pct_change", "revenue_cumulative"}

\* Lines 135-155: fill, clip and cap the revenue, then add the derived
\* columns.  With the frame returned goes the number of outliers the warning
\* reports (None when no warning is logged).
clean_revenue(cs, rs) ==
    LET vs == [i \in 1..Len(rs) |-> clip(fillna(rs[i].revenue))]
        t100 == ThresholdX100(vs)
        n == Cardinality({i \in 1..Len(vs) : 100 * vs[i] > t100})
    IN [val |-> Frame("datetime", cs \cup DerivedCols,
                      [i \in 1..Len(rs) |-> Row(rs[i].date, cap(vs[i], t100))]),
        capped |-> IF n > 0 THEN [v |-> n] ELSE None]

clean_data(data, tie) ==
    IF data.rows = <<>> \/ data.cols = {} THEN [val |-> data, capped |-> None]
    ELSE IF data.index # "datetime" /\ "date" \notin data.cols
    THEN [val |-> data, capped |-> None]
    ELSE LET cs == data.cols \ {"date"}
             dedup == KeepFirst(sort_index(data.rows, tie))
         IN IF "revenue" \notin cs
            THEN [val |-> Frame("datetime", cs, dedup), capped |-> None]
            ELSE clean_revenue(cs, dedup)

\* ----------------------------------------------------------- validate_data
MinDays == 30
MaxZeroRun == 7
ReasonableFactor == 100

NoFlags ==
    [has_data |-> FALSE, has_revenue_column |-> FALSE, has_date_index |-> FALSE,
     no_negative_values |-> FALSE, sufficient_data |-> FALSE,
     no_excessive_gaps |-> FALSE, reasonable_values |-> FALSE]

\* (revenue == 0).astype(int).groupby((revenue != 0).cumsum()).sum(): the
\* rows are grouped by the number of non-zero rows up to and including them,
\* and each group counts its zero rows.  NaN is not equal to 0.
GroupKey(vs, i) == Cardinality({j \in 1..i : vs[j] # 0})
consecutive_zeros(vs) ==
    [k \in {GroupKey(vs, i) : i \in 1..Len(vs)} |->
        Cardinality({i \in 1..Len(vs) : GroupKey(vs, i) = k /\ vs[i] = 0})]

MaxOf(S) == CHOOSE m \in S : \A x \in S : x <= m

\* Mutant: a run of exactly the limit already counts as excessive.
ExcessiveGaps_atlimit(vs) ==
    MaxOf({consecutive_zeros(vs)[k] : k \in DOMAIN consecutive_zeros(vs)})
        >= MaxZeroRun

\* if consecutive_zeros.max() > 7
ExcessiveGaps(vs) ==
    MaxOf({consecutive_zeros(vs)[k] : k \in DOMAIN consecutive_zeros(vs)})
        > MaxZeroRun

\* if max_revenue > mean_revenue * 100, max and mean skipping NaN; any
\* comparison with NaN (a column of NaN only) is false.
Unreasonable(vs) ==
    LET nn == Compress(vs, {i \in 1..Len(vs) : ~IsNaN(vs[i])})
    IN /\ nn # <<>>
       /\ MaxOf({nn[i] : i \in 1..Len(nn)}) * Len(nn)
              > ReasonableFactor * SumSeq(nn)

\* The checks after the three early returns
validate_values(flags, vs) ==
    [flags EXCEPT
        !.no_negative_values = ~\E i \in 1..Len(vs) : ~IsNaN(vs[i]) /\ vs[i] < 0,
        !.sufficient_data = ~(Len(vs) < MinDays),
        !.no_excessive_gaps = ~ExcessiveGaps(vs),
        !.reasonable_values = ~Unreasonable(vs)]

validate_data(data) ==
    IF data.rows = <<>> \/ data.cols = {} THEN NoFlags
    ELSE IF "revenue" \notin data.cols
    THEN [NoFlags EXCEPT !.has_data = TRUE]
    ELSE IF data.index # "datetime"
    THEN [NoFlags EXCEPT !.has_data = TRUE, !.has_revenue_column = TRUE]
    ELSE validate_values([NoFlags EXCEPT !.has_data = TRUE,
                                         !.has_revenue_column = TRUE,
                                         !.has_date_index = TRUE],
                         [i \in 1..Len(data.rows) |-> data.rows[i].revenue])

\* ---------------------------------------------------------------------- ui
MinTrainingDays == 30

\* DataTab and ForecastTab after construction: no data, no results, both
\* buttons enabled; no thread started and no signal waiting for its slot.
NewUi ==
    [current_data |-> EmptyFrame, forecast_results |-> EmptyDict,
     run_forecast_btn |-> TRUE, fetch_btn |-> TRUE,
     running |-> <<>>, signals |-> <<>>, fetching |-> 0]

ForecastingThread(data, forecast_days, run_backtest, backtest_days) ==
    [data |-> data, forecast_days |-> forecast_days,
     run_backtest |-> run_backtest, backtest_days |-> backtest_days]

\* ForecastTab.run_forecast with the values the widgets hold
run_forecast(u, forecast_days, run_backtest, backtest_days) ==
    IF u.current_data.rows = <<>> THEN u
    ELSE IF run_backtest
            /\ Len(u.current_data.rows) < backtest_days + MinTrainingDays
    THEN u
    ELSE [u EXCEPT !.running = Append(@, ForecastingThread(u.current_data,
                                             forecast_days, run_backtest,
                                             backtest_days)),
                   !.run_forecast_btn = FALSE]

\* DataTab.on_data_ready as MainWindow wraps it: store and clean the data,
\* then start a forecast
on_data_ready(u, data, forecast_days, run_backtest, backtest_days) ==
    run_forecast([u EXCEPT !.current_data = clean_data(data, "stable").val,
                           !.fetch_btn = TRUE],
                 forecast_days, run_backtest, backtest_days)

\* What one run of a ForecastingThread emits and hands over
Emitted(t, sig, fcast, bt) ==
    [emitted |-> sig, thread |-> t, forecast_rows |-> Len(fcast.rows),
     backtest |-> IF bt = None THEN None ELSE bt.val,
     cause |-> IF bt = None THEN "none" ELSE bt.cause,
     train |-> IF bt = None THEN 0 ELSE Len(bt.trace.train)]

\* Lines 176-196: forecast, diagnostics, optional backtest, forecast_ready
thread_forecast(t, forecaster, config, btlib, tie) ==
    LET fcr == forecast(forecaster, t.forecast_days)
        test_months == Max(1, t.backtest_days \div DaysPerMonth)
        bt == IF t.run_backtest
              THEN backtest(fcr.self, t.data, test_months, config, btlib, tie)
              ELSE None
    IN Emitted(t, <<"forecast_ready">>, fcr.val, bt)

\* ForecastingThread.run
thread_run(t, config, lib, btlib, tie) ==
    LET fit == fit_model(NewForecaster, t.data, None, None, config, lib, tie)
    IN IF ~fit.val THEN Emitted(t, <<"error_occurred">>, EmptyFrame, None)
       ELSE thread_forecast(t, fit.self, config, btlib, tie)

\* on_forecast_ready and on_forecast_error
on_forecast_ready(u, e) ==
    [u EXCEPT !.forecast_results = [source |-> e.thread.data,
                                    forecast_rows |-> e.forecast_rows,
                                    backtest |-> e.backtest],
              !.run_forecast_btn = TRUE]
on_forecast_error(u, e) == [u EXCEPT !.run_forecast_btn = TRUE]

\* ------------------------------------------------------------------ inputs
Ties == {"stable", "reversed"}
Revenues == {NaN, -200, 0, 500}

SeqsUpTo(S, n) == UNION {[1..k -> S] : k \in 0..n}

DefaultConfig == [sarima_order |-> DefaultOrder, seasonal_order |-> DefaultSeasonal]

ConfigChoices ==
    {DefaultConfig,
     [sarima_order |-> List(<<-1, 1, 1>>), seasonal_order |-> DefaultSeasonal],
     [sarima_order |-> DefaultOrder, seasonal_order |-> List(<<1, 1, 1, 1>>)],
     [sarima_order |-> List(<<6, 1, 1>>), seasonal_order |-> DefaultSeasonal]}

\* The configurations of a forecaster followed through several calls.
LifeConfigs ==
    {DefaultConfig,
     [sarima_order |-> List(<<6, 1, 1>>), seasonal_order |-> DefaultSeasonal]}

\* The frames handed to a forecaster during its life: one row on any day, two
\* rows out of order, ten days in a row, or a frame without revenue.
LifeData ==
    {Frame("datetime", {"revenue"}, <<Row(d, 500)>>) : d \in {1, 2}}
    \cup {Frame("datetime", {"revenue"}, <<Row(2, 500), Row(1, 500)>>),
          Frame("datetime", {"revenue"}, [i \in 1..10 |-> Row(i, 500)]),
          Frame("datetime", {}, <<Row(1, 500)>>)}

FitOrders == {<<None, None>>, <<Tuple(<<1, 1, 1>>), Tuple(<<1, 1, 1, 7>>)>>}
LifeLib == {l \in LibOutcomes : l.shape = "last" /\ l.aic = "ar2"}

\* Daily series of n rows starting at day 1, with len days missing after
\* row at (no gap when at = 0); values constant, or mixed with missing,
\* negative and zero entries.
Gen(n, at, len, kind) ==
    [i \in 1..n |->
        Row(i + (IF at > 0 /\ i > at THEN len ELSE 0),
            IF kind = "const" THEN 500
            ELSE CASE i % 5 = 0 -> NaN
                   [] i % 7 = 0 -> -200
                   [] i % 3 = 0 -> 0
                   [] OTHER -> 300 + i)]

Lens == {10, 2 * MinTrain - 1, 100} \cup {2 * MinTrain + k : k \in 0..MaxExtra}
Gaps == {<<0, 0>>, <<MinTrain + 5, 2>>, <<MinTrain, DaysPerMonth + 10>>}

BtData ==
    {Frame("datetime", {"revenue"}, Gen(n, g[1], g[2], kind)) :
        n \in Lens, g \in Gaps, kind \in {"const", "mixed"}}
    \cup {Frame("range", {"revenue"}, <<>>),
          Frame("datetime", {}, Gen(2 * MinTrain, 0, 0, "const"))}

BtInputs ==
    [data : BtData, test_months : 0..MaxMonths, lib : LibOutcomes, tie : {"stable"}]

\* A forecaster that has already been used: new, after a failed fit, after a
\* fit, or after a fit and a forecast.
UsedForecasters ==
    LET fits == {fit_model(NewForecaster, d, None, None, DefaultConfig, l,
                           "stable").self :
                     d \in LifeData, l \in {x \in LibOutcomes : x.aic = "ar2"}}
    IN {NewForecaster} \cup fits
       \cup {forecast(f, 1).self : f \in fits}

\* The backtests asked of a used forecaster: enough history, too little, or
\* no revenue column.
UsedInputs ==
    [data : {Frame("datetime", {"revenue"}, Gen(2 * MinTrain, 0, 0, "const")),
             Frame("datetime", {"revenue"}, Gen(10, 0, 0, "mixed")),
             Frame("datetime", {}, Gen(2 * MinTrain, 0, 0, "const"))},
     test_months : {1},
     lib : {l \in LibOutcomes : l.aic = "ar2" /\ l.shape = "last"},
     tie : {"stable"}]

\* Frames handed to several fits as one object: with a date index or a date
\* column or neither; one row, rows out of order, a repeated date, ten days.
SharedData ==
    {Frame(ix[1], ix[2], rs) :
        ix \in {<<"datetime", {"revenue"}>>, <<"range", {"date", "revenue"}>>,
                <<"range", {"revenue"}>>},
        rs \in {<<Row(1, 500)>>, <<Row(2, 0), Row(1, 500)>>,
                <<Row(1, 500), Row(1, 0)>>, [i \in 1..10 |-> Row(i, 300 + i)]}}

SharedInputs ==
    [data : SharedData,
     lib : {l \in LibOutcomes : l.shape = "last" /\ l.aic \in {"ar2", "flat"}},
     tie : Ties]

SharedConfigs ==
    {DefaultConfig,
     [sarima_order |-> List(<<2, 0, 1>>), seasonal_order |-> DefaultSeasonal]}

\* The threads that each own a forecaster
Threads == {"a", "b"}

\* n days at a level, with a run of len1 zero days after day at, then one
\* day at sep, then a run of len2 zero days
ZeroRuns(n, level, at, len1, sep, len2) ==
    [i \in 1..n |->
        Row(i, IF i > at /\ i <= at + len1 THEN 0
               ELSE IF i = at + len1 + 1 THEN sep
               ELSE IF i > at + len1 + 1 /\ i <= at + len1 + 1 + len2 THEN 0
               ELSE level)]

ValidateData ==
    {Frame(ix[1], ix[2], ZeroRuns(n, 500, at, len1, sep, len2)) :
        ix \in {<<"datetime", {"revenue"}>>, <<"range", {"date", "revenue"}>>,
                <<"datetime", {"clicks"}>>},
        n \in {MinDays - 1, MinDays}, at \in {0, 3},
        len1 \in (MaxZeroRun - 1)..(MaxZeroRun + MaxExtra),
        sep \in {NaN, -200, 0, 70000}, len2 \in {0, 1, MaxZeroRun}}
    \cup {Frame("datetime", {"revenue"}, <<>>),
          Frame("datetime", {}, <<Row(1, 500)>>),
          Frame("datetime", {"revenue"}, <<Row(1, NaN), Row(2, NaN)>>)}

\* What the widgets and the data sources of the window can hold: series a
\* little and well above the backtest minimum, the spin box values, and the
\* estimator's behaviour on the full series and on the training prefix.
UiData ==
    {Frame("datetime", {"revenue"}, Gen(n, 0, 0, "const")) :
        n \in {MinTrainingDays + 10, 2 * MinTrainingDays + MaxExtra}}
\* <<run_backtest, backtest_days>> as the check box and the spin box hold them
UiRequests == {<<FALSE, DaysPerMonth>>, <<TRUE, 10>>, <<TRUE, DaysPerMonth>>}
\* <<full series, training prefix>>: whether the estimator's fit succeeds
UiLibs ==
    {<<a, b>> : a \in {l \in LibOutcomes : l.ctor /\ l.shape = "last" /\ l.aic = "ar2"},
                b \in {l \in LibOutcomes : l.ctor /\ l.shape = "last" /\ l.aic = "ar2"}}

\* Rows out of order with every date twice, longer than SmallSort
LongUnsorted == [i \in 1..(SmallSort + 2) |-> Row((SmallSort + 4 - i) \div 2, 10 * i)]

\* n days at a base level b, the last k of them at a spike v
SpikyData ==
    {Frame("datetime", {"revenue"},
           [i \in 1..n |-> Row(i, IF i > n - k THEN v ELSE b)]) :
        n \in {20, 21, 22}, b \in {0, 100}, k \in 0..2, v \in {1000, 5000}}

PrepData ==
    {Frame(ix[1], ix[2], rs) :
        ix \in {<<"datetime", {"revenue"}>>, <<"range", {"date", "revenue"}>>,
                <<"range", {"revenue"}>>, <<"datetime", {}>>},
        rs \in SeqsUpTo({Row(d, v) : d \in 1..MaxDate, v \in Revenues}, 2)
               \cup {LongUnsorted}}
    \cup SpikyData

PrepInputs == [data : PrepData, tie : Ties]

\* The grid searches: what the estimator does with each candidate, and the
\* bounds of the grid.
SearchInputs ==
    [lib : {l \in LibOutcomes : l.ctor /\ l.fit /\ l.shape = "last"},
     max_p : 0..MaxP, max_d : 0..MaxD, max_q : 0..MaxQ]

\* The API responses: a failed request, or up to MaxRows rows on the days
\* 1..MaxDay in any order, repeated days included; and the date ranges asked.
Responses ==
    {[ok |-> FALSE, rows |-> <<>>]}
    \cup {[ok |-> TRUE, rows |-> rs] :
             rs \in SeqsUpTo({Row(d, v) : d \in 1..MaxDay, v \in {500, 700}}, MaxRows)}

Ranges == {<<1, MaxDay>>, <<2, MaxDay>>}

\* ------------------------------------------------------------------- state
VARIABLES scenario, fc, config, inp, ret, calls, everFit, cache, obj, th, ui

vars == <<scenario, fc, config, inp, ret, calls, everFit, cache, obj, th, ui>>

MaxCalls == 3

NoCall == [op |-> "none"]

InitLife ==
    /\ scenario = "life"
    /\ inp = None
    /\ config \in LifeConfigs

InitBacktest ==
    /\ scenario = "backtest"
    /\ inp \in BtInputs
    /\ config \in ConfigChoices

InitPrepare ==
    /\ scenario = "prepare"
    /\ inp \in PrepInputs
    /\ config = DefaultConfig

InitSearch ==
    /\ scenario = "search"
    /\ inp \in SearchInputs
    /\ config = DefaultConfig

InitFetch ==
    /\ scenario = "fetch"
    /\ inp \in [response : Responses]
    /\ config = DefaultConfig

\* A forecaster in use: its earlier calls have already happened.
InitUsed ==
    /\ scenario = "used"
    /\ inp \in UsedInputs
    /\ config = DefaultConfig
    /\ fc \in UsedForecasters
    /\ everFit = (fc.fitted_model # None)

InitValidate ==
    /\ scenario = "validate"
    /\ inp \in [data : ValidateData]
    /\ config = DefaultConfig

InitUi ==
    /\ scenario = "ui"
    /\ inp = None
    /\ config = DefaultConfig
    /\ ui = NewUi

\* Two forecasters, each about to fit the same frame object.
InitShared ==
    /\ scenario = "shared"
    /\ inp \in SharedInputs
    /\ config \in SharedConfigs
    /\ fc = NewForecaster
    /\ obj = inp.data
    /\ th = [t \in Threads |->
                [pc |-> "check", fc |-> NewForecaster, out |-> None,
                 first |-> None]]

Init ==
    /\ \/ /\ \/ InitLife \/ InitBacktest \/ InitPrepare \/ InitSearch
             \/ InitFetch \/ InitValidate
          /\ fc = NewForecaster
          /\ everFit = FALSE
          /\ obj = None /\ th = None /\ ui = None
       \/ InitUsed /\ obj = None /\ th = None /\ ui = None
       \/ InitShared /\ everFit = FALSE /\ ui = None
       \/ InitUi /\ fc = NewForecaster /\ everFit = FALSE
                 /\ obj = None /\ th = None
    /\ cache = EmptyCache(Ranges)
    /\ ret = NoCall
    /\ calls = 0

\* forecaster.fit_model(data, order, seasonal_order)
FitModel(data, orders, lib) ==
    /\ scenario = "life" /\ calls < MaxCalls
    /\ LET r == fit_model(fc, data, orders[1], orders[2], config, lib, "stable")
       IN /\ fc' = r.self
          /\ ret' = [op |-> "fit_model", steps |-> 0, val |-> r.val,
                     raised |-> r.raised, cause |-> r.cause,
                     order |-> orders[1], seasonal_order |-> orders[2],
                     handed |-> r.handed]
          /\ everFit' = (everFit \/ (r.raised = "none" /\ r.val = TRUE))
    /\ calls' = calls + 1
    /\ UNCHANGED <<scenario, config, inp, cache, obj, th, ui>>

\* forecaster.forecast(steps)
Forecast(steps) ==
    /\ scenario \in {"life", "used"} /\ calls < MaxCalls
    /\ LET r == forecast(fc, steps)
       IN /\ fc' = r.self
          /\ ret' = [op |-> "forecast", steps |-> steps, val |-> r.val,
                     raised |-> r.raised, cause |-> r.cause]
    /\ calls' = calls + 1
    /\ UNCHANGED <<scenario, config, inp, everFit, cache,
                 obj, th, ui>>

\* forecaster.backtest(data, test_months), once on a new forecaster or
\* among the other calls on a used one
Backtest ==
    /\ scenario \in {"backtest", "used"}
    /\ calls < (IF scenario = "backtest" THEN 1 ELSE MaxCalls)
    /\ LET r == backtest(fc, inp.data, inp.test_months, config, inp.lib, inp.tie)
       IN /\ fc' = r.self
          /\ ret' = [op |-> "backtest",
                     test_days |-> inp.test_months * DaysPerMonth,
                     val |-> r.val, raised |-> r.raised, cause |-> r.cause,
                     trace |-> r.trace]
    /\ calls' = calls + 1
    /\ UNCHANGED <<scenario, config, inp, everFit, cache,
                 obj, th, ui>>

\* forecaster.get_model_diagnostics()
GetModelDiagnostics(lb_ok) ==
    /\ scenario = "used" /\ calls < MaxCalls
    /\ LET r == get_model_diagnostics(fc, lb_ok)
       IN /\ fc' = r.self
          /\ ret' = [op |-> "get_model_diagnostics", val |-> r.val,
                     raised |-> r.raised, cause |-> r.cause]
    /\ calls' = calls + 1
    /\ UNCHANGED <<scenario, config, inp, everFit, cache,
                 obj, th, ui>>

\* prepare_data(data), and prepare_data of its result
Prepare ==
    /\ scenario = "prepare" /\ calls = 0
    /\ LET once == prepare_data(inp.data, inp.tie)
           twice == IF once.exc = "none" THEN prepare_data(once.val, inp.tie)
                    ELSE once
       IN ret' = [op |-> "prepare_data", once |-> once, twice |-> twice]
    /\ calls' = calls + 1
    /\ UNCHANGED <<scenario, fc, config, inp, everFit, cache,
                 obj, th, ui>>

\* data_processor.clean_data(data)
CleanData ==
    /\ scenario = "prepare" /\ calls = 0
    /\ LET r == clean_data(inp.data, inp.tie)
       IN ret' = [op |-> "clean_data", val |-> r.val, capped |-> r.capped]
    /\ calls' = calls + 1
    /\ UNCHANGED <<scenario, fc, config, inp, everFit, cache,
                 obj, th, ui>>

\* data_processor.validate_data(data)
ValidateDataCall ==
    /\ scenario = "validate" /\ calls = 0
    /\ ret' = [op |-> "validate_data", val |-> validate_data(inp.data)]
    /\ calls' = calls + 1
    /\ UNCHANGED <<scenario, fc, config, inp, everFit, cache,
                 obj, th, ui>>

\* forecaster.auto_arima_order(data, max_p, max_d, max_q)
AutoArimaOrder ==
    /\ scenario = "search" /\ calls = 0
    /\ ret' = [op |-> "auto_arima_order",
               val |-> auto_arima_order(inp.lib, inp.max_p, inp.max_d, inp.max_q)]
    /\ calls' = calls + 1
    /\ UNCHANGED <<scenario, fc, config, inp, everFit, cache,
                 obj, th, ui>>

\* api_client.fetch_revenue_data(start_date, end_date, use_cache)
FetchRevenueData(range, use_cache, fresh) ==
    /\ scenario = "fetch" /\ calls < MaxCalls
    /\ LET r == fetch_revenue_data(cache, inp.response, range[1], range[2],
                                   use_cache, fresh, "stable")
       IN /\ ret' = [op |-> "fetch_revenue_data", start_date |-> range[1],
                     end_date |-> range[2], val |-> r.val,
                     from_cache |-> r.from_cache, report |-> r.report]
          /\ cache' = r.cache
    /\ calls' = calls + 1
    /\ UNCHANGED <<scenario, fc, config, inp, everFit, obj, th, ui>>

\* What a finished fit_model call leaves with its caller
Outcome(r) ==
    [val |-> r.val, cause |-> r.cause,
     aic |-> IF r.val THEN r.self.fitted_model.aic ELSE None,
     bic |-> IF r.val THEN r.self.fitted_model.bic ELSE None]

Finish(t, r) ==
    th' = [th EXCEPT ![t].pc = "done", ![t].fc = r.self, ![t].out = Outcome(r)]

\* prepare_data line 39: if not isinstance(data.index, pd.DatetimeIndex)
CheckIndex(t) ==
    /\ scenario = "shared" /\ th[t].pc = "check"
    /\ th' = [th EXCEPT ![t].pc = IF obj.index # "datetime" THEN "to_datetime"
                                  ELSE "fit"]
    /\ UNCHANGED <<scenario, fc, config, inp, ret, calls, everFit, cache, obj, ui>>

\* prepare_data line 40: data["date"] = pd.to_datetime(data["date"])
ToDatetime(t) ==
    /\ scenario = "shared" /\ th[t].pc = "to_datetime"
    /\ IF "date" \in obj.cols
       THEN th' = [th EXCEPT ![t].pc = "set_index"]
       ELSE Finish(t, fit_model_except(th[t].fc, "KeyError"))
    /\ UNCHANGED <<scenario, fc, config, inp, ret, calls, everFit, cache, obj, ui>>

\* prepare_data line 41: data.set_index("date", inplace=True)
SetIndex(t) ==
    /\ scenario = "shared" /\ th[t].pc = "set_index"
    /\ IF "date" \in obj.cols
       THEN /\ obj' = set_index(obj)
            /\ th' = [th EXCEPT ![t].pc = "fit"]
       ELSE /\ Finish(t, fit_model_except(th[t].fc, "KeyError"))
            /\ obj' = obj
    /\ UNCHANGED <<scenario, fc, config, inp, ret, calls, everFit, cache, ui>>

\* The rest of prepare_data and of fit_model, on frames of the thread's own
Estimate(t) ==
    /\ scenario = "shared" /\ th[t].pc = "fit"
    /\ LET r == fit_model(th[t].fc, obj, None, None, config, inp.lib, inp.tie)
           prep == prepare_data(obj, inp.tie)
       IN /\ Finish(t, r)
          /\ obj' = IF prep.exc = "none" THEN rebind(obj, prep.val) ELSE obj
    /\ UNCHANGED <<scenario, fc, config, inp, ret, calls, everFit, cache, ui>>

\* A forecaster that has returned is handed the same object once more.
FitAgain(t) ==
    /\ scenario = "shared" /\ calls < MaxCalls
    /\ \A u \in Threads : th[u].pc = "done"
    /\ th' = [th EXCEPT ![t].pc = "check", ![t].out = None,
                        ![t].first = th[t].out]
    /\ calls' = calls + 1
    /\ UNCHANGED <<scenario, fc, config, inp, ret, everFit, cache, obj, ui>>

\* The user presses Run Forecast (possible only while it is enabled).
ClickRunForecast(run_backtest, backtest_days) ==
    /\ scenario = "ui" /\ calls < MaxEvents
    /\ ui.run_forecast_btn
    /\ ui' = run_forecast(ui, MaxSteps, run_backtest, backtest_days)
    /\ calls' = calls + 1
    /\ UNCHANGED <<scenario, fc, config, inp, ret, everFit, cache, obj, th>>

\* File > Import Data: a file with rows goes to on_data_ready.
ImportData(data, run_backtest, backtest_days) ==
    /\ scenario = "ui" /\ calls < MaxEvents
    /\ ui' = IF data.rows = <<>> THEN ui
             ELSE on_data_ready(ui, data, MaxSteps, run_backtest, backtest_days)
    /\ calls' = calls + 1
    /\ UNCHANGED <<scenario, fc, config, inp, ret, everFit, cache, obj, th>>

\* The refresh timer fires (or View > Refresh): DataTab.fetch_data starts a
\* DataFetchingThread whatever the state of the fetch button.
RefreshData ==
    /\ scenario = "ui" /\ calls < MaxEvents
    /\ ui' = [ui EXCEPT !.fetching = @ + 1, !.fetch_btn = FALSE]
    /\ calls' = calls + 1
    /\ UNCHANGED <<scenario, fc, config, inp, ret, everFit, cache, obj, th>>

\* A DataFetchingThread ends: data_ready with the fetched rows, or
\* error_occurred.
FetchDone(data, run_backtest, backtest_days) ==
    /\ scenario = "ui" /\ ui.fetching > 0
    /\ LET u == [ui EXCEPT !.fetching = @ - 1]
       IN ui' = IF data.rows = <<>> THEN [u EXCEPT !.fetch_btn = TRUE]
                ELSE on_data_ready(u, data, MaxSteps, run_backtest, backtest_days)
    /\ UNCHANGED <<scenario, fc, config, inp, ret, calls, everFit, cache, obj, th>>

\* The i-th of the started threads runs to its emit.
ThreadRun(i, lib, btlib) ==
    /\ scenario = "ui" /\ i \in 1..Len(ui.running)
    /\ LET e == thread_run(ui.running[i], config, lib, btlib, "stable")
       IN /\ ui' = [ui EXCEPT !.running = SubSeq(@, 1, i - 1)
                                              \o SubSeq(@, i + 1, Len(@)),
                              !.signals = Append(@, e)]
          /\ ret' = [op |-> "thread_run"] @@ e
    /\ UNCHANGED <<scenario, fc, config, inp, calls, everFit, cache, obj, th>>

\* The window's event loop delivers the oldest emitted signal to its slot.
DeliverSignal ==
    /\ scenario = "ui" /\ ui.signals # <<>>
    /\ LET e == Head(ui.signals)
           u == [ui EXCEPT !.signals = Tail(@)]
       IN ui' = IF e.emitted = <<"forecast_ready">> THEN on_forecast_ready(u, e)
                ELSE on_forecast_error(u, e)
    /\ UNCHANGED <<scenario, fc, config, inp, ret, calls, everFit, cache, obj, th>>

Next ==
    \/ \E data \in LifeData, orders \in FitOrders, lib \in LifeLib :
           FitModel(data, orders, lib)
    \/ \E steps \in 1..MaxSteps : Forecast(steps)
    \/ Backtest
    \/ \E lb_ok \in BOOLEAN : GetModelDiagnostics(lb_ok)
    \/ Prepare
    \/ CleanData
    \/ ValidateDataCall
    \/ AutoArimaOrder
    \/ \E range \in Ranges, use_cache \in BOOLEAN, fresh \in BOOLEAN :
           FetchRevenueData(range, use_cache, fresh)
    \/ \E t \in Threads : CheckIndex(t)
    \/ \E t \in Threads : ToDatetime(t)
    \/ \E t \in Threads : SetIndex(t)
    \/ \E t \in Threads : Estimate(t)
    \/ \E t \in Threads : FitAgain(t)
    \/ \E rq \in UiRequests : ClickRunForecast(rq[1], rq[2])
    \/ \E data \in UiData \cup {EmptyFrame}, rq \in UiRequests :
           ImportData(data, rq[1], rq[2])
    \/ RefreshData
    \/ \E data \in UiData \cup {EmptyFrame}, rq \in UiRequests :
           FetchDone(data, rq[1], rq[2])
    \/ \E i \in 1..MaxEvents, libs \in UiLibs : ThreadRun(i, libs[1], libs[2])
    \/ DeliverSignal

Spec == Init /\ [][Next]_vars

\* ================================================================== claims
LastOf(rs) == rs[Len(rs)]
IsFailure(r) == r.cause # "none"
Returned(r) == r.raised = "none"

\* The value each operation returns from its except clause.
Sentinel(op) ==
    CASE op = "fit_model" -> FALSE
      [] op = "forecast" -> EmptyFrame
      [] op = "backtest" -> EmptyDict

\* The error kind of section 7 of the specification for each cause.
TypedError(cause) ==
    CASE cause \in {"KeyError", "ValueError:no revenue column"} -> "DataError"
      [] cause \in {"ValueError:SARIMAX", "LinAlgError:fit"} -> "ModelFitError"
      [] cause \in {"ValueError:not fitted", "IndexError"} -> "ForecastError"
      [] OTHER -> "BacktestError"

UnfittedForecast == ret.op = "forecast" /\ ~everFit

ForecastSucceeded == ret.op = "forecast" /\ Returned(ret) /\ ~IsFailure(ret)

\* C3: whenever forecast succeeds, its dates are the calendar days right after
\* the last date of the series its fitted model was estimated on.
C3_Original ==
    ForecastSucceeded =>
        Dates(ret.val.rows)
            = date_range(LastOf(fc.fitted_model.model.endog).date + 1, ret.steps)

\* C4: a fit_model call either succeeds and installs a fitted model together
\* with the series it was fitted on, or fails and leaves model, fitted_model
\* and original_data as they were.
C4_Original ==
    [][(ret'.op = "fit_model" /\ calls' = calls + 1) =>
          IF ret'.val = TRUE
          THEN /\ fc'.fitted_model # None
               /\ fc'.fitted_model.model = fc'.model
               /\ fc'.original_data.rows = fc'.fitted_model.model.endog
          ELSE /\ fc'.model = fc.model
               /\ fc'.fitted_model = fc.fitted_model
               /\ fc'.original_data = fc.original_data]_vars

\* C5: a successful forecast(h), h >= 1, has exactly h rows, one per calendar
\* day in increasing order, the first being the day after the last date of the
\* fitted series.
C5_Original ==
    (ForecastSucceeded /\ ret.steps >= 1) =>
        /\ Len(ret.val.rows) = ret.steps
        /\ \A i \in 1..(ret.steps - 1) :
               ret.val.rows[i + 1].date = ret.val.rows[i].date + 1
        /\ ret.val.rows[1].date = LastOf(fc.fitted_model.model.endog).date + 1

\* C6: preparing the output of a preparation gives the same series as
\* preparing once, also when backtest prepares the series and fit_model then
\* prepares the training prefix again.
C6_Original ==
    /\ (ret.op = "prepare_data" /\ ret.once.exc = "none") => ret.twice = ret.once
    /\ (ret.op = "backtest" /\ ret.trace.estimated # <<>>) =>
           ret.trace.estimated = ret.trace.train

BacktestSplit == ret.op = "backtest" /\ ret.trace.stage # "prepare"
ShortTraining == BacktestSplit /\ Len(ret.trace.train) < MinTrain

C8_Original ==
    (BacktestSplit /\ ret.test_days <= Len(ret.trace.prepared)) =>
        LET n == Len(ret.trace.prepared)
            w == ret.test_days
        IN /\ ret.trace.train = SubSeq(ret.trace.prepared, 1, n - w)
           /\ ret.trace.test = SubSeq(ret.trace.prepared, n - w + 1, n)
           /\ ret.trace.train \o ret.trace.test = ret.trace.prepared

BacktestAligned == ret.op = "backtest" /\ ret.trace.stage \in {"metrics", "done"}

\* C9: backtest forecasts exactly len(holdout) steps and pairs forecast step i
\* with holdout entry i, on the same date.
C9_Original ==
    BacktestAligned =>
        /\ ret.trace.steps = Len(ret.trace.test)
        /\ Len(ret.trace.fcast) = Len(ret.trace.test)
        /\ \A i \in 1..Len(ret.trace.test) :
               /\ ret.trace.fcast[i].date = ret.trace.test[i].date
               /\ ret.trace.aligned[i] = ret.trace.fcast[i]

\* The pairs of a holdout and a forecast in which both values are defined:
\* holdout entries with a value whose date has a forecast row with a value.
DefinedPairs(test, fcast) ==
    LET hit(i) == {j \in 1..Len(fcast) :
                      fcast[j].date = test[i].date /\ ~IsNaN(fcast[j].forecast)}
        ok == {i \in 1..Len(test) : ~IsNaN(test[i].revenue) /\ hit(i) # {}}
    IN Compress([i \in 1..Len(test) |->
                    IF i \in ok
                    THEN [actual |-> test[i].revenue,
                          forecast |-> fcast[CHOOSE j \in hit(i) : TRUE].forecast]
                    ELSE None],
                ok)

NoPairsLeft == BacktestAligned /\ DefinedPairs(ret.trace.test, ret.trace.fcast) = <<>>

BacktestSucceeded == ret.op = "backtest" /\ Returned(ret) /\ ~IsFailure(ret)

\* C11: every successful backtest returns metrics with mae >= 0, mse >= 0,
\* rmse >= 0 and mape >= 0, whatever the forecasts (negative ones included)
\* and the prepared actual values are.
C11_MetricsNonNegative ==
    BacktestSucceeded =>
        LET m == ret.val.metrics
        IN /\ m.mae.den > 0 /\ m.mae.num >= 0
           /\ m.mse.den > 0 /\ m.mse.num >= 0
           /\ m.rmse # NaN /\ m.rmse >= 0
           /\ m.mape.den > 0 /\ m.mape.num >= 0

\* C11 witness: a successful backtest whose forecasts are all negative, over
\* actual values of which some were missing, negative or zero in the input.
C11_Witness ==
    /\ BacktestSucceeded
    /\ \A i \in 1..Len(ret.trace.pairs) : ret.trace.pairs[i].forecast < 0
    /\ \E i \in 1..Len(ret.trace.pairs) : ret.trace.pairs[i].actual = PrepEps
    /\ ret.val.metrics.mape.num > 0

\* The orders fit_model works with: the supplied ones, the configured ones
\* where none is supplied.
EffectiveOrder == IF ret.order = None THEN config.sarima_order ELSE ret.order
EffectiveSeasonal ==
    IF ret.seasonal_order = None THEN config.seasonal_order ELSE ret.seasonal_order

\* An order of n non-negative integers.
NonNegative(order, n) ==
    Len(order.vals) = n /\ \A i \in 1..n : order.vals[i] >= 0

ReachedEstimation == ret.op = "fit_model" /\ ret.handed # None

\* C12: fit_model runs the grid search if and only if the supplied (or
\* configured) order is not a triple of non-negative integers or the seasonal
\* order is not a quadruple of non-negative integers; valid orders are handed
\* to the estimation unchanged.
C12_Original ==
    ReachedEstimation =>
        LET ok == NonNegative(EffectiveOrder, 3) /\ NonNegative(EffectiveSeasonal, 4)
        IN /\ ret.handed.auto <=> ~ok
           /\ ok => /\ ret.handed.order.vals = EffectiveOrder.vals
                    /\ ret.handed.seasonal_order.vals = EffectiveSeasonal.vals

\* The candidates of the grid of a search, those that fitted, and the
\* enumeration order (p outermost, q innermost).
Grid == (0..inp.max_p) \X (0..inp.max_d) \X (0..inp.max_q)
Fitted == {c \in Grid : CandidateFits(inp.lib, c[1], c[2], c[3])}
Aic(c) == CandidateAic(inp.lib, c[1], c[2], c[3])
Before(a, b) ==
    \/ a[1] < b[1]
    \/ a[1] = b[1] /\ a[2] < b[2]
    \/ a[1] = b[1] /\ a[2] = b[2] /\ a[3] < b[3]

SearchReturned == ret.op = "auto_arima_order"

\* C13: auto_arima_order returns, of the candidates of the whole grid whose
\* estimation succeeded, one with the minimum AIC, the first of them in
\* ascending (p,d,q) enumeration order; failing candidates are skipped, and
\* the result is (1,1,1) when no candidate fitted.
C13_GridSearchMinimum ==
    SearchReturned =>
        IF Fitted = {} THEN ret.val = Tuple(<<1, 1, 1>>)
        ELSE /\ ret.val.kind = "tuple"
             /\ ret.val.vals \in Fitted
             /\ \A c \in Fitted :
                    \/ Aic(ret.val.vals) < Aic(c)
                    \/ Aic(ret.val.vals) = Aic(c) /\ (c = ret.val.vals \/ Before(ret.val.vals, c))

\* C13 witness: a search in which a candidate enumerated before the result
\* failed, and a later candidate has the same AIC as the result.
C13_Witness ==
    /\ SearchReturned /\ Fitted # {}
    /\ \E c \in Grid \ Fitted : Before(c, ret.val.vals)
    /\ \E c \in Fitted : Before(ret.val.vals, c) /\ Aic(c) = Aic(ret.val.vals)

\* C13 witness of the default: no candidate fitted.
C13_NoneFitted == SearchReturned /\ Fitted = {} /\ inp.max_p > 0

\* C14: fit_model fails with ModelFitError whenever it has fewer than 30
\* prepared observations to estimate on (a 10-observation series, say); it
\* never reports a successful fit of such a series.
C14_Original ==
    (ReachedEstimation /\ Len(fc.original_data.rows) < MinTrain) =>
        (ret.raised = "ModelFitError" /\ ret.val # TRUE)

\* The configuration policy on the orders.
WithinPolicy(order, seasonal_order) ==
    /\ order.vals[1] <= 5 /\ order.vals[2] <= 2 /\ order.vals[3] <= 5
    /\ seasonal_order.vals[1] <= 5 /\ seasonal_order.vals[2] <= 2
    /\ seasonal_order.vals[3] <= 5 /\ seasonal_order.vals[4] >= 2

\* C15: every order fit_model hands to the estimation satisfies the policy
\* p <= 5, d <= 2, q <= 5, P <= 5, D <= 2, Q <= 5, s >= 2, whatever the caller
\* or the configuration supplied.
C15_Original ==
    ReachedEstimation => WithinPolicy(ret.handed.order, ret.handed.seasonal_order)

Prepared == ret.op = "prepare_data" /\ ret.once.exc = "none"

\* The first row of the input with the date d, in input order.
FirstOccurrence(d) ==
    inp.data.rows[CHOOSE i \in 1..Len(inp.data.rows) :
                      /\ inp.data.rows[i].date = d
                      /\ \A j \in 1..(i - 1) : inp.data.rows[j].date # d]

\* C16: the output of the preparer has strictly increasing dates, each date
\* of the input once, and the entry kept for a date is the first entry with
\* that date in the input order.
C16_Original ==
    Prepared =>
        LET out == ret.once.val.rows
        IN /\ \A i \in 1..(Len(out) - 1) : out[i].date < out[i + 1].date
           /\ {out[i].date : i \in 1..Len(out)}
                  = {inp.data.rows[i].date : i \in 1..Len(inp.data.rows)}
           /\ \A i \in 1..Len(out) :
                  out[i].revenue = PrepValue(FirstOccurrence(out[i].date).revenue)

\* The input rows with the date d.
InputRows(d) ==
    {inp.data.rows[i] : i \in {j \in 1..Len(inp.data.rows) : inp.data.rows[j].date = d}}

\* C17: every value of the preparer's output is strictly positive and equals
\* max(input, 0) + 1e-6 for the input entry it comes from, a missing input
\* being read as 0.
C17_PreparedValues ==
    Prepared =>
        \A i \in 1..Len(ret.once.val.rows) :
            LET out == ret.once.val.rows[i]
            IN /\ ~IsNaN(out.revenue) /\ out.revenue > 0
               /\ \E r \in InputRows(out.date) :
                      out.revenue = Max(IF IsNaN(r.revenue) THEN 0 ELSE r.revenue, 0)
                                        + PrepEps

\* C17 witness: a series with a missing value and a negative value prepared.
C17_Witness ==
    /\ Prepared /\ Len(ret.once.val.rows) = 2
    /\ \E i, j \in 1..Len(inp.data.rows) :
           IsNaN(inp.data.rows[i].revenue) /\ inp.data.rows[j].revenue < 0
                                           /\ ~IsNaN(inp.data.rows[j].revenue)

\* C18: the preparer fails with a data error when its input has no rows or
\* no revenue field; it never returns a prepared series for such an input.
C18_Original ==
    (ret.op = "prepare_data"
        /\ (inp.data.rows = <<>> \/ "revenue" \notin inp.data.cols)) =>
        (ret.once.exc # "none" /\ TypedError(ret.once.exc) = "DataError")

\* One entry per calendar day between the first and the last date.
NoGaps(rs) == \A i \in 1..(Len(rs) - 1) : rs[i + 1].date = rs[i].date + 1

\* C19: every series handed to the estimation has one entry per calendar day
\* between its first and last date: an input with missing days is filled or
\* rejected, never fitted with the gaps in place.
C19_Original ==
    /\ (ret.op = "backtest" /\ ret.trace.estimated # <<>>) =>
           NoGaps(ret.trace.estimated)
    /\ (ret.op = "fit_model" /\ ret.val = TRUE) =>
           NoGaps(fc.fitted_model.model.endog)

Fetched == ret.op = "fetch_revenue_data" /\ ret.val.rows # <<>>

\* C20: every non-empty series fetch_revenue_data returns, fetched or served
\* from the cache, has exactly one row for each calendar day from start_date
\* to end_date in increasing order, the days absent from the API report with
\* revenue 0, whatever the API responded (repeated dates included).
C20_Original ==
    Fetched =>
        /\ Dates(ret.val.rows) = date_range(ret.start_date, ret.end_date - ret.start_date + 1)
        /\ \A i \in 1..Len(ret.val.rows) :
               (\A j \in 1..Len(ret.report) : ret.report[j].date # ret.val.rows[i].date)
                   => ret.val.rows[i].revenue = 0

\* ---------------------------------------------------------------------- C21
ForecastsOf(f) == [h \in 1..MaxSteps |-> forecast(f, h).val]

BacktestStep == ret'.op = "backtest" /\ calls' = calls + 1

\* C21: a backtest, whether it succeeds or fails, leaves the calling
\* forecaster's model, fitted_model, original_data and forecast_results as
\* they were, so the forecasts it gives afterwards are those it gave before.
C21_BacktestLeavesCaller ==
    [][BacktestStep => /\ fc' = fc
                       /\ ForecastsOf(fc') = ForecastsOf(fc)]_vars

\* A fitted forecaster holding a forecast has run a successful backtest.
C21_Witness ==
    /\ ret.op = "backtest" /\ ret.val # EmptyDict
    /\ fc.fitted_model # None /\ fc.forecast_results # None

\* ---------------------------------------------------------------------- C23
DiagnosticsStep == ret'.op = "get_model_diagnostics" /\ calls' = calls + 1

\* C23: get_model_diagnostics changes none of the forecaster's model,
\* fitted_model, original_data and forecast_results, in any state, so the
\* forecasts after any number of calls are those before them.
C23_DiagnosticsObserveOnly ==
    [][DiagnosticsStep => /\ fc' = fc
                          /\ ForecastsOf(fc') = ForecastsOf(fc)]_vars

\* Diagnostics were read twice or more from a fitted model.
C23_Witness ==
    /\ ret.op = "get_model_diagnostics" /\ ret.val # EmptyDict
    /\ calls >= 2 /\ fc.fitted_model # None

\* ---------------------------------------------------------------------- C22
AllReturned == scenario = "shared" /\ \A t \in Threads : th[t].pc = "done"

\* The outcome of the same fit when no other fit runs
Alone ==
    Outcome(fit_model(NewForecaster, inp.data, None, None, config, inp.lib,
                      inp.tie))

\* C22: when fits on separate forecasters handed the same frame object have
\* all returned, the caller's frame is as it was handed in and each fit's
\* outcome is the outcome it has when run alone.
C22_Original ==
    (AllReturned /\ calls = 0) =>
        /\ obj = inp.data
        /\ \A t \in Threads : th[t].out = Alone

\* ---------------------------------------------------------------------- C25
\* The outcomes of the finished runs: the latest of each forecaster and the
\* one before it.
Runs ==
    {th[t].out : t \in {u \in Threads : th[u].out # None}}
    \cup {th[t].first : t \in {u \in Threads : th[u].first # None}}

\* C25: any two fit_model runs that estimated a model from the same input
\* under the same configured orders, on one forecaster or on two, report the
\* same AIC and the same BIC.
C25_SameCriteria ==
    scenario = "shared" =>
        \A r1, r2 \in {r \in Runs : r.val} : r1.aic = r2.aic /\ r1.bic = r2.bic

\* One forecaster has fitted twice the frame whose index its first run set.
C25_Witness ==
    /\ scenario = "shared" /\ inp.data.index = "range"
    /\ \E t \in Threads :
           /\ th[t].first # None /\ th[t].first.val
           /\ th[t].out # None /\ th[t].out.val

\* ---------------------------------------------------------------------- C24
Values(rs) == [i \in 1..Len(rs) |-> rs[i].revenue]

\* C24: in the output of the preparer no value exceeds 10 times the 95th
\* percentile of the series it prepared.
C24_Original ==
    Prepared =>
        LET vs == Values(ret.once.val.rows)
        IN \A i \in 1..Len(vs) : 100 * vs[i] <= ThresholdX100(vs)

\* ---------------------------------------------------------------------- C30
Validated == ret.op = "validate_data"

\* The longest stretch of consecutive days of the series whose revenue is 0
ZeroStretch(rs, i, len) == \A j \in i..(i + len - 1) : rs[j].revenue = 0
LongestZeroRun(rs) ==
    MaxOf({len \in 0..Len(rs) :
              \E i \in 1..(Len(rs) - len + 1) : ZeroStretch(rs, i, len)})

QualityFlags ==
    {"no_negative_values", "sufficient_data", "no_excessive_gaps",
     "reasonable_values"}

ThreadRan == ret.op = "thread_run"
BacktestRan == ThreadRan /\ ret.backtest # None

\* C26: a backtest that run_forecast accepted (data_days >= backtest_days +
\* 30) and the thread then ran had a training prefix of at least 30
\* observations: it did not fail for insufficient training data.
C26_Original ==
    BacktestRan =>
        /\ ret.train >= 30
        /\ ret.cause # "ValueError:insufficient training data"

\* ---------------------------------------------------------------------- C27
\* C27: a thread run emits exactly one of forecast_ready and error_occurred,
\* and forecast_ready only with a forecast of one row per requested day and,
\* if a backtest was requested, a backtest result that holds its metrics.
C27_Original ==
    ThreadRan =>
        /\ Len(ret.emitted) = 1
        /\ ret.emitted[1] \in {"forecast_ready", "error_occurred"}
        /\ ret.emitted = <<"forecast_ready">> =>
               /\ ret.forecast_rows = ret.thread.forecast_days
               /\ ret.thread.run_backtest => ret.backtest # EmptyDict

\* ---------------------------------------------------------------------- C28
\* C28: at most one started ForecastingThread has not yet emitted its
\* forecast_ready or error_occurred.
C28_Original == scenario = "ui" => Len(ui.running) <= 1

\* ---------------------------------------------------------------------- C29
Idle == scenario = "ui" /\ ui.running = <<>> /\ ui.signals = <<>>

\* C29: when no forecasting run is under way, the results ForecastTab holds,
\* if any, were computed from the series DataTab holds.
C29_Original ==
    (Idle /\ ui.forecast_results # EmptyDict) =>
        ui.forecast_results.source = ui.current_data
====
